---- MODULE Spec2Model ----
(***************************************************************************)
(* PdfVectorLoader (utils/PdfVectorLoader.ts) and its two entry scripts    *)
(* (execute/loadPdf.ts, execute/searchPdf.ts) as a state machine.          *)
(*                                                                         *)
(* Texts are sequences of character codes: 0..9 are the decimal digits,    *)
(* 10 is "a", 11 is "b", 12 is the space character.  Similarities and      *)
(* thresholds are percentages (0.7 is 70).  The clock counts milliseconds.  *)
(***************************************************************************)
EXTENDS Integers, Sequences, FiniteSets, TLC

\* ---------------------------------------------------------------- bounds
MaxChunks == 21
MaxPaths == 2
MaxFaults == 1
ClockStart == 1000

\* ------------------------------------------------------ program constants
batchSize == 20
subBatchSize == 5
subBatchDelay == 500
batchDelay == 1000
searchLimit == 5
searchThreshold == 70

VARIABLES
    entry,        \* which entry point runs: "loadPdf", "searchPdf" or a direct "api" call
    pc,           \* position of the single thread of control
    envOk,        \* are the three environment variables set
    pdfPaths,     \* the pdfPaths argument: a sequence of paths
    fileSize,     \* the number of chunks Reporting_Guide.pdf splits into
    table,        \* the store's table: NoTable, or the sequence of its rows
    probeData,    \* what the existence probe returned in `data`
    docIdx,       \* 1-based index of the document being processed
    validChunks,  \* the valid chunks of the current document
    i, j,         \* the loop counters of processAndStoreChunks
    batchData,    \* records of the current batch whose sub-batches completed
    subBatchData, \* records of the current sub-batch (embedding pending or set)
    outstanding,  \* embedding requests the running Promise.all waits for
    now,          \* Date.now()
    ticks,        \* clock ticks taken inside a sub-batch map so far
    faults,       \* collaborator failures and mid-map clock ticks so far
    log,          \* the calls issued to the collaborators, in order
    raised,       \* the error raised to the entry point's caller, or NoError
    swallowed,    \* errors caught by processAndStoreChunks and not re-raised, in order
    diagnostics,  \* number of console.error diagnostics written
    exitStatus,   \* the process exit status, or NoStatus while running
    queries,      \* the queries still to be searched
    search,       \* the arguments of the running searchSimilarContent call
    queryVec,     \* the embedding of the query, or NoVec
    reply,        \* the store's answer to the similarity RPC
    results       \* the values searchSimilarContent returned, in order

vars == <<entry, pc, envOk, pdfPaths, fileSize, table, probeData, docIdx, validChunks, i, j,
          batchData, subBatchData, outstanding, now, ticks, faults, log,
          raised, swallowed, diagnostics, exitStatus, queries, search, queryVec, reply, results>>

\* ------------------------------------------------------------- helpers
NoTable == [exists |-> FALSE, rows |-> <<>>]
TableOf(rows) == [exists |-> TRUE, rows |-> rows]
NoData == [isNull |-> TRUE, rows |-> <<>>]
DataOf(rows) == [isNull |-> FALSE, rows |-> rows]
NoVec == <<>>
NoError == [from |-> "none", code |-> "", dupMsg |-> FALSE]
NoStatus == 0 - 1
NoSearch == [tableName |-> "", query |-> "", limit |-> 0, threshold |-> 0]
NoReply == [error |-> NoError, data |-> <<>>]
TableName == "documents"

Min(a, b) == IF a < b THEN a ELSE b

Range(s) == {s[k] : k \in DOMAIN s}

\* Array.prototype.slice(from, to) on a 0-based array held as a 1-based sequence.
Slice(s, from, to) == SubSeq(s, from + 1, Min(to, Len(s)))

\* Number -> decimal string (the implicit conversion in `pageContent + timestamp`).
RECURSIVE Digits(_)
Digits(n) == IF n < 10 THEN <<n>> ELSE Append(Digits(n \div 10), n % 10)

\* String.prototype.trim().
RECURSIVE TrimLeft(_)
TrimLeft(s) == IF s # <<>> /\ Head(s) = 12 THEN TrimLeft(Tail(s)) ELSE s
RECURSIVE TrimRight(_)
TrimRight(s) ==
    IF s # <<>> /\ s[Len(s)] = 12 THEN TrimRight(SubSeq(s, 1, Len(s) - 1)) ELSE s
Trim(s) == TrimRight(TrimLeft(s))

\* crypto sha256 hex digest: a collision-free digest of the character sequence
\* (base-14 positional value of the codes shifted by one).
RECURSIVE Sha256(_)
Sha256(s) == IF s = <<>> THEN 0 ELSE Sha256(SubSeq(s, 1, Len(s) - 1)) * 14 + s[Len(s)] + 1

generateHash(content) == Sha256(content)

\* embeddings.embedQuery(text) when it succeeds: the provider's vector for the text.
EmbedVector(text) == <<"vec", text>>

\* ------------------------------------------------------------- inputs
TextA == <<10>>
TextB == <<11>>
BlankText == <<12, 12>>
Paths == {"Reporting_Guide.pdf", "Release_Notes.pdf"}

\* What loader.load() and splitDocuments() yield for a path: n chunks alternating
\* in pairs between two texts (a a b b a a ...); Release_Notes.pdf also carries a
\* whitespace-only chunk in front and an empty chunk at the end.
SplitChunks(path, n) ==
    LET body == [k \in 1..n |-> [pageContent |->
                    IF ((k - 1) \div 2) % 2 = 0 THEN TextA ELSE TextB]]
    IN IF path = "Release_Notes.pdf"
       THEN <<[pageContent |-> BlankText]>> \o body \o <<[pageContent |-> <<>>]>>
       ELSE body

\* The file system: Reporting_Guide.pdf splits into n chunks, Release_Notes.pdf
\* into a blank chunk, two text chunks and an empty chunk.
FileChunks(path, n) ==
    IF path = "Reporting_Guide.pdf" THEN SplitChunks(path, n) ELSE SplitChunks(path, 2)

\* The pdfPaths arguments tried: up to MaxPaths paths, the large document at
\* most once among them.
PathSeqs ==
    {p \in UNION {[1..n -> Paths] : n \in 1..MaxPaths} :
        Cardinality({k \in DOMAIN p : p[k] = "Reporting_Guide.pdf"}) <= 1}

ChunkCounts == {0, 1, subBatchSize + 1, batchSize, MaxChunks}

OldRow == [id |-> 1, content |-> TextB, embedding |-> EmbedVector(TextB),
           metadata |-> [chunk_index |-> 0, total_chunks |-> 1, timestamp |-> 0],
           source |-> "Old.pdf", chunk_hash |-> generateHash(TextB \o Digits(0))]


\* A row another writer stored under the hash this run derives for its first chunk.
ClashRow == [id |-> 1, content |-> TextA, embedding |-> EmbedVector(TextA),
             metadata |-> [chunk_index |-> 0, total_chunks |-> 1, timestamp |-> ClockStart],
             source |-> "Other.pdf",
             chunk_hash |-> generateHash(TextA \o Digits(ClockStart))]

IngestTables == {NoTable, TableOf(<<>>), TableOf(<<ClashRow>>)}
SearchTables == {NoTable, TableOf(<<>>), TableOf(<<OldRow>>),
                 TableOf(<<ClashRow, [OldRow EXCEPT !.id = 2]>>)}

testQueries == <<"q1", "q2", "q3", "q4", "q5">>
ApiLimits == {0, 1, 5}
ApiThresholds == {50, 80, 100}

\* Errors of the collaborators: where they come from, the store's SQLSTATE (if
\* any) and whether the message contains the text 'duplicate key value'.
Err(from, code, dupMsg) == [from |-> from, code |-> code, dupMsg |-> dupMsg]
\* The embedding provider's errors (network, rate limit, credentials) never carry
\* the store's duplicate-key text.
EmbedErrors == {Err("embedQuery", "", FALSE)}
UpsertErrors == {Err("upsert", "23505", TRUE), Err("upsert", "23505", FALSE),
                 Err("upsert", "42P01", FALSE), Err("upsert", "XX000", TRUE)}

\* ---------------------------------------------------------------- Init
Idle ==
    /\ probeData = NoData /\ docIdx = 0 /\ validChunks = <<>> /\ i = 0 /\ j = 0
    /\ batchData = <<>> /\ subBatchData = <<>> /\ outstanding = {}
    /\ now = ClockStart /\ ticks = 0 /\ faults = 0 /\ log = <<>>
    /\ raised = NoError /\ swallowed = <<>> /\ diagnostics = 0
    /\ exitStatus = NoStatus /\ search = NoSearch /\ queryVec = NoVec
    /\ reply = NoReply /\ results = <<>>

Init ==
    /\ Idle
    /\ \/ /\ entry = "loadPdf" /\ pc = "start" /\ envOk = TRUE
          /\ pdfPaths \in PathSeqs
          /\ fileSize \in IF "Reporting_Guide.pdf" \in Range(pdfPaths)
                          THEN ChunkCounts ELSE {0}
          /\ table \in IngestTables /\ queries = <<"question">>
       \/ /\ entry = "loadPdf" /\ pc = "start" /\ envOk = FALSE
          /\ pdfPaths = <<"Reporting_Guide.pdf">> /\ fileSize = 1
          /\ table = NoTable /\ queries = <<"question">>
       \/ /\ entry = "searchPdf" /\ pc = "search" /\ envOk = TRUE
          /\ pdfPaths = <<>> /\ fileSize = 0
          /\ table \in SearchTables /\ queries \in {<<"argv">>, testQueries}
       \/ /\ entry = "api" /\ pc = "search" /\ envOk = TRUE
          /\ pdfPaths = <<>> /\ fileSize = 0
          /\ table \in SearchTables /\ queries = <<"query">>

\* --------------------------------------------------------- error exits
\* The exit status of the process once an error reached the script's top level:
\* loadPdf.ts calls process.exit(1); searchPdf.ts only logs (.catch(console.error))
\* and the process then ends normally; a direct call has no process of its own.
ExitStatusOnError(e) ==
    IF e = "loadPdf" THEN 1 ELSE IF e = "searchPdf" THEN 0 ELSE NoStatus

\* An error propagates out of the running call to the entry point's top level.
Throw(err) ==
    /\ raised' = err
    /\ pc' = "exited"
    /\ exitStatus' = ExitStatusOnError(entry)
    /\ diagnostics' = diagnostics + 1


\* ------------------------------------------------- loadPdf.ts: environment
\* loadPdf.ts lines 10-14: the credentials check.
EnvCheck ==
    /\ entry = "loadPdf" /\ pc = "start"
    /\ IF envOk
       THEN /\ pc' = "probe"
            /\ UNCHANGED <<raised, exitStatus, diagnostics>>
       ELSE Throw(Err("env", "", FALSE))
    /\ UNCHANGED <<entry, envOk, pdfPaths, fileSize, table, probeData, docIdx,
                   validChunks, i, j, batchData, subBatchData, outstanding, now, ticks,
                   faults, log, swallowed, queries, search, queryVec, reply, results>>

\* ------------------------------------------- loadPdfsToVectorStore: the table
\* Mutant of TableMissing: an empty array counts as a missing table too.
TableMissingNoRows(data) == data.isNull \/ data.rows = <<>>

\* `!tableExists`: only null is falsy, an array (even an empty one) is truthy.
TableMissing(data) == data.isNull

\* Lines 76-87: select('id').limit(1) on the table, then the decision to create.
\* A missing table (or a failed probe) yields data = null; the probe's error is
\* not looked at.
Probe ==
    /\ pc = "probe"
    /\ \E data \in {DataOf(SubSeq(table.rows, 1, Min(1, Len(table.rows)))), NoData} :
          /\ ~table.exists => data = NoData
          /\ (table.exists /\ data = NoData) => faults < MaxFaults
          /\ faults' = IF table.exists /\ data = NoData THEN faults + 1 ELSE faults
          /\ probeData' = data
          /\ pc' = IF TableMissing(data) THEN "create" ELSE "loop"
    /\ log' = Append(log, [op |-> "probe", doc |-> 0, idx |-> 0])
    /\ UNCHANGED <<entry, envOk, pdfPaths, fileSize, table, docIdx, validChunks, i, j,
                   batchData, subBatchData, outstanding, now, ticks, raised, swallowed,
                   diagnostics, exitStatus, queries, search, queryVec, reply, results>>

\* Lines 26-65: CREATE TABLE IF NOT EXISTS through the exec_sql RPC; an error of
\* the second RPC is thrown.
createTableIfNotExists ==
    /\ pc = "create"
    /\ log' = Append(log, [op |-> "create", doc |-> 0, idx |-> 0])
    /\ \/ /\ table' = IF table.exists THEN table ELSE TableOf(<<>>)
          /\ pc' = "loop"
          /\ UNCHANGED <<faults, raised, exitStatus, diagnostics>>
       \/ /\ faults < MaxFaults
          /\ faults' = faults + 1
          /\ Throw(Err("exec_sql", "", FALSE))
          /\ UNCHANGED table
    /\ UNCHANGED <<entry, envOk, pdfPaths, fileSize, probeData, docIdx, validChunks, i, j,
                   batchData, subBatchData, outstanding, now, ticks, swallowed,
                   queries, search, queryVec, reply, results>>

\* ------------------------------------------ loadPdfsToVectorStore: documents
\* Lines 108-114: chunks whose trimmed text is empty are dropped.
ValidChunks(chunks) ==
    SelectSeq(chunks, LAMBDA c : ~(c.pageContent = <<>> \/ Len(Trim(c.pageContent)) = 0))

\* Mutant of BatchLoopHead: the loop condition is `<=`.
BatchLoopHeadInclusive(k, n) == IF k <= n THEN "issue" ELSE "loop"

\* The head of the batch loop (line 131) with counter value k over n chunks:
\* another batch, or back to the document loop.
BatchLoopHead(k, n) == IF k < n THEN "issue" ELSE "loop"

\* Lines 89-118: the next path is loaded, split and filtered and its chunks are
\* handed to processAndStoreChunks; after the last path the call returns.
NextDocument ==
    /\ pc = "loop"
    /\ IF docIdx = Len(pdfPaths)
       THEN /\ pc' = "search"
            /\ UNCHANGED <<docIdx, validChunks, i, j, batchData, faults, log, raised,
                           exitStatus, diagnostics, outstanding>>
       ELSE \/ /\ docIdx' = docIdx + 1
               /\ validChunks' = ValidChunks(FileChunks(pdfPaths[docIdx + 1], fileSize))
               /\ log' = Append(log, [op |-> "load", doc |-> docIdx + 1, idx |-> 0])
               /\ i' = 0 /\ j' = 0 /\ batchData' = <<>>
               /\ pc' = BatchLoopHead(0, Len(validChunks'))
               /\ UNCHANGED <<faults, raised, exitStatus, diagnostics, outstanding>>
            \/ /\ faults < MaxFaults
               /\ faults' = faults + 1
               /\ log' = Append(log, [op |-> "load", doc |-> docIdx + 1, idx |-> 0])
               /\ Throw(Err("load", "", FALSE))
               /\ outstanding' = {}
               /\ UNCHANGED <<docIdx, validChunks, i, j, batchData>>
    /\ UNCHANGED <<entry, envOk, pdfPaths, fileSize, table, probeData, subBatchData,
                   now, ticks, swallowed, queries, search, queryVec, reply, results>>


\* ------------------------------------------------- processAndStoreChunks
\* Line 147: the hash of the chunk's text followed by the timestamp's digits.
ChunkHash(content, timestamp) == generateHash(content \o Digits(timestamp))

\* Lines 144-175: the record built for one chunk; its embedding arrives later.
BuildRecord(chunk, absoluteIndex, timestamp, total, source) ==
    [content |-> chunk.pageContent,
     embedding |-> NoVec,
     metadata |-> [chunk_index |-> absoluteIndex, total_chunks |-> total,
                   timestamp |-> timestamp],
     source |-> source,
     chunk_hash |-> ChunkHash(chunk.pageContent, timestamp)]

\* Line 145: the timestamp read by the m-th callback of a sub-batch map when the
\* clock ticks just before callback tickAt.
Timestamp(m, tickAt) == IF m >= tickAt THEN now + 1 ELSE now

CurrentBatch == Slice(validChunks, i, i + batchSize)

\* Mutant of CurrentSubBatch: the slice starts one chunk late.
CurrentSubBatchShifted == Slice(CurrentBatch, j + 1, j + 1 + subBatchSize)

CurrentSubBatch == Slice(CurrentBatch, j, j + subBatchSize)

\* Lines 140-177: the map over a sub-batch runs every callback up to its
\* embedQuery call; all requests of the sub-batch are now in flight.
IssueSubBatch ==
    /\ pc = "issue"
    /\ \E tickAt \in 1..(Len(CurrentSubBatch) + 1) :
          /\ tickAt <= Len(CurrentSubBatch) => faults < MaxFaults
          /\ ticks' = IF tickAt <= Len(CurrentSubBatch) THEN ticks + 1 ELSE ticks
          /\ faults' = IF tickAt <= Len(CurrentSubBatch) THEN faults + 1 ELSE faults
          /\ now' = IF tickAt <= Len(CurrentSubBatch) THEN now + 1 ELSE now
          /\ subBatchData' =
                [m \in 1..Len(CurrentSubBatch) |->
                    BuildRecord(CurrentSubBatch[m], i + j + m - 1, Timestamp(m, tickAt),
                                Len(validChunks), pdfPaths[docIdx])]
    /\ outstanding' = {i + j + m - 1 : m \in 1..Len(CurrentSubBatch)}
    /\ log' = log \o [m \in 1..Len(CurrentSubBatch) |->
                        [op |-> "embed", doc |-> docIdx, idx |-> i + j + m - 1]]
    /\ pc' = "await"
    /\ UNCHANGED <<entry, envOk, pdfPaths, fileSize, table, probeData, docIdx,
                   validChunks, i, j, batchData, raised, swallowed, diagnostics,
                   exitStatus, queries, search, queryVec, reply, results>>

\* Line 167 resolving: the vector is put into the chunk's record.
EmbedResolve ==
    /\ pc = "await"
    /\ \E r \in outstanding :
          /\ outstanding' = outstanding \ {r}
          /\ subBatchData' =
                [subBatchData EXCEPT ![r - (i + j) + 1].embedding =
                    EmbedVector(subBatchData[r - (i + j) + 1].content)]
    /\ UNCHANGED <<entry, pc, envOk, pdfPaths, fileSize, table, probeData, docIdx,
                   validChunks, i, j, batchData, now, ticks, faults, log, raised,
                   swallowed, diagnostics, exitStatus, queries, search, queryVec, reply,
                   results>>

\* Mutant of SkipsBatch: the catch block skips the batch whatever was thrown.
SkipsBatchAlways(err) == TRUE

\* Line 204: the test the catch block applies to whatever was thrown in the batch.
SkipsBatch(err) == err.dupMsg

\* Lines 203-215: the catch block of a batch: `continue` with the next batch when
\* the message contains 'duplicate key value', otherwise log and re-throw (and
\* loadPdfsToVectorStore and the script log and re-throw in turn).
CatchBatchError(err) ==
    IF SkipsBatch(err)
    THEN /\ swallowed' = Append(swallowed, err)
         /\ i' = i + batchSize
         /\ j' = 0
         /\ batchData' = <<>>
         /\ subBatchData' = <<>>
         /\ pc' = BatchLoopHead(i + batchSize, Len(validChunks))
         /\ UNCHANGED <<raised, exitStatus, diagnostics>>
    ELSE /\ Throw(err)
         /\ UNCHANGED <<swallowed, i, j, batchData, subBatchData>>

\* Line 167 rejecting: Promise.all rejects at once and the batch's catch block runs.
EmbedReject ==
    /\ pc = "await"
    /\ faults < MaxFaults
    /\ \E r \in outstanding, err \in EmbedErrors :
          /\ CatchBatchError(err)
          /\ outstanding' = {}
          /\ log' = Append(log, [op |-> "embedReject", doc |-> docIdx, idx |-> r,
                                 error |-> err])
    /\ faults' = faults + 1
    /\ UNCHANGED <<entry, envOk, pdfPaths, fileSize, table, probeData, docIdx,
                   validChunks, now, ticks, queries, search, queryVec, reply, results>>

\* Lines 177-179: Promise.all resolved; the sub-batch joins the batch's data.
PushSubBatch ==
    /\ pc = "await"
    /\ \A m \in DOMAIN subBatchData : subBatchData[m].embedding # NoVec
    /\ batchData' = batchData \o subBatchData
    /\ subBatchData' = <<>>
    /\ pc' = "subDelay"
    /\ UNCHANGED <<entry, envOk, pdfPaths, fileSize, table, probeData, docIdx,
                   validChunks, i, j, outstanding, now, ticks, faults, log, raised,
                   swallowed, diagnostics, exitStatus, queries, search, queryVec, reply,
                   results>>

\* Mutant of SubBatchDelayElapsed: the loop goes on without the pause.
SubBatchNoDelay ==
    /\ pc = "subDelay"
    /\ j' = j + subBatchSize
    /\ pc' = IF j + subBatchSize < Len(CurrentBatch) THEN "issue" ELSE "upsert"
    /\ UNCHANGED <<entry, envOk, pdfPaths, fileSize, table, probeData, docIdx,
                   validChunks, i, batchData, subBatchData, outstanding, now, ticks,
                   faults, log, raised, swallowed, diagnostics, exitStatus, queries,
                   search, queryVec, reply, results>>

\* Lines 180-182 and the loop head of line 140: the pause after a sub-batch.
SubBatchDelayElapsed ==
    /\ pc = "subDelay"
    /\ now' = now + subBatchDelay
    /\ j' = j + subBatchSize
    /\ pc' = IF j + subBatchSize < Len(CurrentBatch) THEN "issue" ELSE "upsert"
    /\ UNCHANGED <<entry, envOk, pdfPaths, fileSize, table, probeData, docIdx,
                   validChunks, i, batchData, subBatchData, outstanding, ticks, faults,
                   log, raised, swallowed, diagnostics, exitStatus, queries, search,
                   queryVec, reply, results>>

\* Lines 187-192: the upsert request for the batch goes out.
UpsertIssue ==
    /\ pc = "upsert"
    /\ log' = Append(log, [op |-> "upsert", doc |-> docIdx, idx |-> i,
                           records |-> batchData])
    /\ pc' = "upsertWait"
    /\ UNCHANGED <<entry, envOk, pdfPaths, fileSize, table, probeData, docIdx,
                   validChunks, i, j, batchData, subBatchData, outstanding, now, ticks,
                   faults, raised, swallowed, diagnostics, exitStatus, queries, search,
                   queryVec, reply, results>>

\* Mutant of UpsertOne: a plain insert, conflicts are not looked at.
UpsertOneInsert(rows, rec) ==
    Append(rows, [id |-> Len(rows) + 1, content |-> rec.content,
                  embedding |-> rec.embedding, metadata |-> rec.metadata,
                  source |-> rec.source, chunk_hash |-> rec.chunk_hash])

\* upsert(..., {onConflict: 'chunk_hash', ignoreDuplicates: true}) for one record:
\* a record whose chunk_hash is already stored is ignored, any other is appended
\* under the next id.
UpsertOne(rows, rec) ==
    IF \E k \in DOMAIN rows : rows[k].chunk_hash = rec.chunk_hash
    THEN rows
    ELSE Append(rows, [id |-> Len(rows) + 1, content |-> rec.content,
                       embedding |-> rec.embedding, metadata |-> rec.metadata,
                       source |-> rec.source, chunk_hash |-> rec.chunk_hash])

RECURSIVE UpsertRows(_, _)
UpsertRows(rows, recs) ==
    IF recs = <<>> THEN rows ELSE UpsertRows(UpsertOne(rows, Head(recs)), Tail(recs))

\* Mutant of UpsertThrows: the error of the upsert is never looked at.
UpsertThrowsNever(err) == FALSE

\* Line 194: which upsert errors are thrown.
UpsertThrows(err) == err.code # "23505"

\* Lines 187-199: the store's answer to the upsert.
UpsertReply ==
    /\ pc = "upsertWait"
    /\ \/ /\ table' = TableOf(UpsertRows(table.rows, batchData))
          /\ log' = Append(log, [op |-> "upsertReply", doc |-> docIdx, idx |-> i,
                                 error |-> NoError])
          /\ pc' = "batchDelay"
          /\ UNCHANGED <<faults, raised, exitStatus, diagnostics, swallowed, i, j,
                         batchData, subBatchData>>
       \/ /\ faults < MaxFaults
          /\ faults' = faults + 1
          /\ UNCHANGED table
          /\ \E err \in UpsertErrors :
                /\ log' = Append(log, [op |-> "upsertReply", doc |-> docIdx,
                                       idx |-> i, error |-> err])
                /\ IF UpsertThrows(err)
                   THEN CatchBatchError(err)
                   ELSE /\ pc' = "batchDelay"
                        /\ UNCHANGED <<raised, exitStatus, diagnostics, swallowed, i, j,
                                       batchData, subBatchData>>
    /\ UNCHANGED <<entry, envOk, pdfPaths, fileSize, probeData, docIdx, validChunks,
                   outstanding, now, ticks, queries, search, queryVec, reply, results>>

\* Lines 201-202 and the loop head of line 131: the pause after a stored batch.
BatchDelayElapsed ==
    /\ pc = "batchDelay"
    /\ now' = now + batchDelay
    /\ i' = i + batchSize
    /\ j' = 0
    /\ batchData' = <<>>
    /\ pc' = BatchLoopHead(i + batchSize, Len(validChunks))
    /\ UNCHANGED <<entry, envOk, pdfPaths, fileSize, table, probeData, docIdx,
                   validChunks, subBatchData, outstanding, ticks, faults, log, raised,
                   swallowed, diagnostics, exitStatus, queries, search, queryVec, reply,
                   results>>


\* ------------------------------------------------- searchSimilarContent
\* The arguments the entry points pass: both scripts pass limit 5 and threshold
\* 0.7; a direct caller passes what it likes.
SearchArgs(e) ==
    IF e = "api"
    THEN {[tableName |-> TableName, query |-> "query", limit |-> l, threshold |-> t] :
             l \in ApiLimits, t \in ApiThresholds}
    ELSE {[tableName |-> TableName, query |-> Head(queries), limit |-> searchLimit,
           threshold |-> searchThreshold]}

\* Line 225: the call starts and the query's embedding is requested.
SearchStart ==
    /\ pc = "search"
    /\ \E a \in SearchArgs(entry) :
          /\ search' = a
          /\ log' = Append(log, [op |-> "embedQuery", doc |-> 0, idx |-> 0,
                                 text |-> a.query])
    /\ queryVec' = NoVec
    /\ pc' = "searchEmbed"
    /\ UNCHANGED <<entry, envOk, pdfPaths, fileSize, table, probeData, docIdx,
                   validChunks, i, j, batchData, subBatchData, outstanding, now, ticks,
                   faults, raised, swallowed, diagnostics, exitStatus, queries, reply,
                   results>>

\* Lines 228-233: the parameters of the match_documents_enhanced RPC.
RpcArgs(a, vec) ==
    [query_embedding |-> vec, match_threshold |-> a.threshold,
     match_count |-> a.limit, table_name |-> a.tableName]

\* Lines 225-233: the embedding arrives and the RPC goes out, or the embedding
\* request rejects and the call rejects with it.
SearchEmbedSettles ==
    /\ pc = "searchEmbed"
    /\ \/ /\ queryVec' = EmbedVector(search.query)
          /\ log' = Append(log, [op |-> "rpc", doc |-> 0, idx |-> 0,
                                 args |-> RpcArgs(search, EmbedVector(search.query))])
          /\ pc' = "searchRpc"
          /\ UNCHANGED <<faults, raised, exitStatus, diagnostics, outstanding>>
       \/ /\ faults < MaxFaults
          /\ faults' = faults + 1
          /\ Throw(Err("embedQuery", "", FALSE))
          /\ outstanding' = {}
          /\ UNCHANGED <<queryVec, log>>
    /\ UNCHANGED <<entry, envOk, pdfPaths, fileSize, table, probeData, docIdx,
                   validChunks, i, j, batchData, subBatchData, now, ticks, swallowed,
                   queries, search, reply, results>>

\* The similarity of a stored row to the query vector, in percent.
Similarity(vec, row) == IF row.content = TextA THEN 90 ELSE 60

RECURSIVE InsertRanked(_, _)
InsertRanked(ranked, m) ==
    IF ranked = <<>> THEN <<m>>
    ELSE IF Head(ranked).similarity >= m.similarity
         THEN <<Head(ranked)>> \o InsertRanked(Tail(ranked), m)
         ELSE <<m>> \o ranked

RECURSIVE Ranked(_)
Ranked(ms) == IF ms = <<>> THEN <<>>
              ELSE InsertRanked(Ranked(SubSeq(ms, 1, Len(ms) - 1)), ms[Len(ms)])

\* The store's match_documents_enhanced: the rows at least `match_threshold`
\* similar to the query, most similar first, at most `match_count` of them.
MatchDocuments(rows, args) ==
    LET ms == [k \in DOMAIN rows |->
                 [content |-> rows[k].content,
                  similarity |-> Similarity(args.query_embedding, rows[k]),
                  metadata |-> rows[k].metadata]]
        hits == Ranked(SelectSeq(ms, LAMBDA m : m.similarity >= args.match_threshold))
    IN SubSeq(hits, 1, Min(args.match_count, Len(hits)))

\* The store answers the RPC: rows, or an error (always so for a missing table).
RpcAnswers ==
    /\ pc = "searchRpc"
    /\ \/ /\ table.exists
          /\ reply' = [error |-> NoError,
                       data |-> MatchDocuments(table.rows, RpcArgs(search, queryVec))]
          /\ UNCHANGED faults
       \/ /\ ~table.exists
          /\ reply' = [error |-> Err("rpc", "42P01", FALSE), data |-> <<>>]
          /\ UNCHANGED faults
       \/ /\ table.exists /\ faults < MaxFaults
          /\ faults' = faults + 1
          /\ reply' = [error |-> Err("rpc", "XX000", FALSE), data |-> <<>>]
    /\ pc' = "searchReturn"
    /\ UNCHANGED <<entry, envOk, pdfPaths, fileSize, table, probeData, docIdx,
                   validChunks, i, j, batchData, subBatchData, outstanding, now, ticks,
                   log, raised, swallowed, diagnostics, exitStatus, queries, search,
                   queryVec, results>>

\* Line 235: `if (error) throw error`.
SearchThrows(r) == r.error # NoError

\* Mutant of SearchResult: the rows come back in reverse order.
SearchResultReversed(r) == [k \in 1..Len(r.data) |-> r.data[Len(r.data) + 1 - k]]

\* Line 236: `return results`.
SearchResult(r) == r.data

\* The exit status of a script that ran to its end.
ExitStatusOnSuccess(e) == IF e = "api" THEN NoStatus ELSE 0

\* Lines 235-236 and the caller's continuation: the call throws the RPC's error
\* or returns its rows; the script goes on with its next query or ends.
SearchReturn ==
    /\ pc = "searchReturn"
    /\ IF SearchThrows(reply)
       THEN /\ Throw(reply.error)
            /\ outstanding' = {}
            /\ UNCHANGED <<results, queries>>
       ELSE /\ results' = Append(results, SearchResult(reply))
            /\ queries' = Tail(queries)
            /\ pc' = IF Tail(queries) = <<>> THEN "exited" ELSE "search"
            /\ exitStatus' = IF Tail(queries) = <<>>
                             THEN ExitStatusOnSuccess(entry) ELSE exitStatus
            /\ outstanding' = {}
            /\ UNCHANGED <<raised, diagnostics>>
    /\ UNCHANGED <<entry, envOk, pdfPaths, fileSize, table, probeData, docIdx,
                   validChunks, i, j, batchData, subBatchData, now, ticks, faults, log,
                   swallowed, search, queryVec, reply>>

\* ---------------------------------------------------------------- Next
Next ==
    \/ EnvCheck
    \/ Probe
    \/ createTableIfNotExists
    \/ NextDocument
    \/ IssueSubBatch
    \/ EmbedResolve
    \/ EmbedReject
    \/ PushSubBatch
    \/ SubBatchDelayElapsed
    \/ UpsertIssue
    \/ UpsertReply
    \/ BatchDelayElapsed
    \/ SearchStart
    \/ SearchEmbedSettles
    \/ RpcAnswers
    \/ SearchReturn

Spec == Init /\ [][Next]_vars


\* ------------------------------------------------------ reading the log
LogIdx(op) == {k \in DOMAIN log : log[k].op = op}
IngestOps == {"load", "embed", "embedReject", "upsert", "upsertReply"}

\* The valid chunks of the d-th document of the run.
DocChunks(d) == ValidChunks(FileChunks(pdfPaths[d], fileSize))

\* Every record built so far in the run.
BuiltRecords ==
    Range(subBatchData) \cup Range(batchData)
    \cup UNION {Range(log[k].records) : k \in LogIdx("upsert")}

CeilDiv(n, d) == (n + d - 1) \div d

\* Has the d-th document left processAndStoreChunks?
DocDone(d) == d < docIdx \/ (d = docIdx /\ pc \notin
                 {"issue", "await", "subDelay", "upsert", "upsertWait", "batchDelay"})

\* ------------------------------------------------------------------ C1
\* A duplicate-key failure of the store: SQLSTATE 23505, or a message with the
\* text 'duplicate key value'.
IsDuplicateKey(err) == err.code = "23505" \/ err.dupMsg

\* C1: when the upsert of a batch fails with a duplicate-key violation the run
\* is not aborted and goes on with the next batch (or, after the last batch, with
\* what follows the document); any other upsert failure aborts the run with that
\* error raised to the caller, and nothing is issued after it.
C1_UpsertFailure ==
    \A k \in LogIdx("upsertReply") :
        LET err == log[k].error
            d == log[k].doc
            nextI == log[k].idx + 20
        IN err # NoError =>
            IF IsDuplicateKey(err)
            THEN /\ ~(k = Len(log) /\ pc = "exited")
                 /\ k < Len(log) =>
                       IF nextI < Len(DocChunks(d))
                       THEN log[k + 1] = [op |-> "embed", doc |-> d, idx |-> nextI]
                       ELSE log[k + 1].op \in {"load", "embedQuery"}
            ELSE /\ k = Len(log)
                 /\ pc = "exited"
                 /\ raised = err
                 /\ exitStatus = 1

C1_Witness ==
    \E k \in LogIdx("upsertReply") :
        /\ log[k].error # NoError /\ IsDuplicateKey(log[k].error)
        /\ k < Len(log) /\ log[k + 1].op = "embed"

\* ------------------------------------------------------------------ C2
UniqueHashes(rows) ==
    \A a, b \in DOMAIN rows : rows[a].chunk_hash = rows[b].chunk_hash => a = b

IsPrefix(p, q) == Len(p) <= Len(q) /\ \A k \in DOMAIN p : q[k] = p[k]

UpsertSucceeds ==
    /\ pc = "upsertWait" /\ Len(log') = Len(log) + 1
    /\ log'[Len(log')].error = NoError

\* C2: the table never holds two rows with one chunk_hash; rows once stored are
\* never changed or removed; and after a successful upsert every record of the
\* batch has exactly one row with its chunk_hash.
C2_OneRowPerHash ==
    [][/\ UniqueHashes(table'.rows)
       /\ IsPrefix(table.rows, table'.rows)
       /\ UpsertSucceeds =>
             \A m \in DOMAIN batchData :
                Cardinality({k \in DOMAIN table'.rows :
                    table'.rows[k].chunk_hash = batchData[m].chunk_hash}) = 1]_vars

\* A batch with two records of one hash, and one with the hash of a stored row,
\* has been upserted.
C2_Witness ==
    /\ pc = "batchDelay"
    /\ \E a, b \in DOMAIN batchData :
          a # b /\ batchData[a].chunk_hash = batchData[b].chunk_hash
    /\ table.rows # <<>> /\ table.rows[1] = ClashRow
    /\ \E m \in DOMAIN batchData : batchData[m].chunk_hash = ClashRow.chunk_hash

\* ------------------------------------------------------------------ C3
\* C3: all chunks of a run are hashed with one and the same timestamp, so two
\* chunks of the run with the same content have the same chunk_hash.
C3_RunScopedTimestamp ==
    \A r1, r2 \in BuiltRecords :
        /\ r1.metadata.timestamp = r2.metadata.timestamp
        /\ r1.content = r2.content => r1.chunk_hash = r2.chunk_hash

\* ------------------------------------------------------------------ C4
EmbedRejected ==
    /\ Len(log') = Len(log) + 1
    /\ log'[Len(log')].op = "embedReject"

ProbeDone == LogIdx("probe") # {}
CreateChosen == LogIdx("create") # {} \/ pc = "create"
ProbeOnceAndFirst ==
    LET creates == Cardinality(LogIdx("create"))
    IN /\ LogIdx("probe") \subseteq {1}
       /\ LogIdx("create") \subseteq {2}
       /\ (\E k \in DOMAIN log : log[k].op \in IngestOps) =>
             /\ log[1].op = "probe"
             /\ pc # "create"
             /\ \A k \in DOMAIN log : log[k].op \in IngestOps => k > creates + 1

\* C5 as claimed: the table is created exactly when the probe returned no rows.
C5_CreateIffNoRows ==
    /\ ProbeOnceAndFirst
    /\ ProbeDone => (CreateChosen <=> (probeData.isNull \/ probeData.rows = <<>>))

\* C5 as amended: the table-creation step runs exactly when the probe yielded no
\* data at all (null), and is skipped whenever the probe yielded an array of
\* rows, an empty one included; probe and creation happen once and before the
\* first load, embedding request or upsert.
C5_CreateIffNull ==
    /\ ProbeOnceAndFirst
    /\ ProbeDone => (CreateChosen <=> probeData.isNull)

\* The probe returned an empty array, creation was skipped, documents were loaded.
C5_Witness ==
    /\ ProbeDone /\ ~probeData.isNull /\ probeData.rows = <<>>
    /\ LogIdx("create") = {} /\ LogIdx("upsert") # {}


\* ------------------------------------------------------------------ C6
\* The calls and answers of the ingestion, in the order they were logged.
IngestLog == SelectSeq(log, LAMBDA x : x.op \in IngestOps)

\* C6: every upsert carries, in chunk order, a contiguous run of the document's
\* valid chunks; the upserts of a document go out in increasing chunk order; the
\* documents are worked on in the order of pdfPaths (the document number never
\* decreases along the log), and an upsert is answered before anything else is
\* issued, so nothing of a later document precedes the end of an earlier upsert.
C6_DocumentOrder ==
    LET ingest == IngestLog
        upserts == LogIdx("upsert")
    IN /\ \A k \in upserts :
             LET chunks == DocChunks(log[k].doc)
                 records == log[k].records
                 idx == log[k].idx
             IN \A m \in DOMAIN records :
                   /\ idx + m <= Len(chunks)
                   /\ records[m].content = chunks[idx + m].pageContent
                   /\ records[m].metadata.chunk_index = idx + m - 1
       /\ \A k1, k2 \in upserts :
             (k1 < k2 /\ log[k1].doc = log[k2].doc) => log[k1].idx < log[k2].idx
       /\ \A k \in 1..(Len(ingest) - 1) :
             /\ ingest[k].doc <= ingest[k + 1].doc
             /\ ingest[k].op = "upsert" =>
                   /\ ingest[k + 1].op = "upsertReply"
                   /\ ingest[k + 1].doc = ingest[k].doc
                   /\ ingest[k + 1].idx = ingest[k].idx
       /\ \A k \in upserts : k < Len(log) => log[k + 1].op = "upsertReply"

\* Two upserts of the first document and one of the second have been issued.
C6_Witness ==
    /\ Cardinality({k \in LogIdx("upsert") : log[k].doc = 1}) >= 2
    /\ \E k \in LogIdx("upsert") : log[k].doc = 2 /\ Len(log[k].records) >= 2

\* ------------------------------------------------------------------ C7
\* C7: a run of an entry script in which an operation raised an error writes a
\* diagnostic and ends with a non-zero exit status.
C7_FailedRunExitsNonZero ==
    (entry \in {"loadPdf", "searchPdf"} /\ pc = "exited" /\ raised # NoError) =>
        (diagnostics > 0 /\ exitStatus # NoStatus /\ exitStatus # 0)

\* ------------------------------------------------------------------ C8
\* C8: a search call issues exactly one embedding request for the query and, once
\* the vector is there, one RPC carrying that vector and the call's threshold,
\* limit and table; when the RPC reports an error the call raises that error
\* and returns nothing; otherwise it returns exactly the rows of the RPC, in
\* their order, an empty sequence included, and raises nothing.
C8_SearchContract ==
    [][/\ (pc = "search" /\ pc' # "search") =>
             log' = Append(log, [op |-> "embedQuery", doc |-> 0, idx |-> 0,
                                 text |-> search'.query])
       /\ (pc = "searchEmbed" /\ pc' = "searchRpc") =>
             log' = Append(log, [op |-> "rpc", doc |-> 0, idx |-> 0,
                                 args |-> [query_embedding |-> EmbedVector(search.query),
                                           match_threshold |-> search.threshold,
                                           match_count |-> search.limit,
                                           table_name |-> search.tableName]])
       /\ (pc \in {"searchRpc", "searchReturn"}) => log' = log
       /\ (pc = "searchReturn" /\ pc' # "searchReturn") =>
             IF reply.error # NoError
             THEN raised' = reply.error /\ results' = results /\ pc' = "exited"
             ELSE /\ results' = Append(results, reply.data)
                  /\ raised' = NoError]_vars

\* A search with limit 0 has returned the empty sequence and raised nothing.
C8_Witness ==
    /\ pc = "exited" /\ raised = NoError
    /\ search.limit = 0 /\ table.rows # <<>>
    /\ results = << <<>> >>

\* ------------------------------------------------------------------ C9
EmbedsOf(d) == SelectSeq(log, LAMBDA x : x.op = "embed" /\ x.doc = d)
UpsertsOf(d) == SelectSeq(log, LAMBDA x : x.op = "upsert" /\ x.doc = d)

\* C9: as long as no call to a collaborator has failed, the embedding requests
\* of a document are one per valid chunk, in chunk order and without repetition;
\* its upserts carry the chunks in consecutive groups of at most 20, each chunk
\* in one upsert only; and once a document of n valid chunks is through, all n
\* chunks have been requested and upserted and exactly ceil(n / 20) upserts were
\* issued for it.
C9_OneRequestPerChunk ==
    faults = ticks =>
        \A d \in 1..docIdx :
            LET n == Len(DocChunks(d))
                E == EmbedsOf(d)
                U == UpsertsOf(d)
            IN /\ Len(E) <= n
               /\ \A m \in DOMAIN E : E[m].idx = m - 1
               /\ \A m \in DOMAIN U :
                     /\ Len(U[m].records) <= 20
                     /\ U[m].idx = (m - 1) * 20
                     /\ Len(U[m].records) = Min(20, n - U[m].idx)
                     /\ \A q \in DOMAIN U[m].records :
                           U[m].records[q].metadata.chunk_index = U[m].idx + q - 1
               /\ DocDone(d) => (Len(E) = n /\ Len(U) = CeilDiv(n, 20))

\* A document of more than 20 valid chunks went through without a failure.
C9_Witness ==
    /\ faults = ticks /\ docIdx >= 1 /\ DocDone(1)
    /\ Len(DocChunks(1)) > 20
    /\ Cardinality({k \in LogIdx("upsert") : log[k].doc = 1}) = 2

\* ------------------------------------------------------------------ C10
PriorRecords ==
    Range(batchData) \cup UNION {Range(log[k].records) : k \in LogIdx("upsert")}
AllEmbedded(recs) == \A m \in DOMAIN recs : recs[m].embedding # NoVec

\* C10: never more than 5 embedding requests are outstanding; a sub-batch is
\* issued only when no request is outstanding, every earlier sub-batch of the
\* batch is embedded in full, and at least the 500 ms pause lies between it and
\* every record built before; the upsert of a batch is issued only when all its
\* chunks are embedded and nothing is outstanding.
C10_SubBatchConcurrency ==
    [][/\ Cardinality(outstanding') <= 5
       /\ (pc = "issue" /\ pc' = "await") =>
             /\ outstanding = {}
             /\ Len(batchData) = j /\ AllEmbedded(batchData)
             /\ \A m \in DOMAIN subBatchData' : \A q \in PriorRecords :
                   subBatchData'[m].metadata.timestamp >= q.metadata.timestamp + 500
       /\ (pc = "upsert" /\ pc' = "upsertWait") =>
             /\ outstanding = {}
             /\ Len(batchData) = Len(CurrentBatch) /\ AllEmbedded(batchData)
             /\ log'[Len(log')].records = batchData]_vars

\* Five requests of a later sub-batch of a batch are outstanding.
C10_Witness ==
    pc = "await" /\ j > 0 /\ Cardinality(outstanding) = 5

====
